---- MODULE Spec2Model ----
(***************************************************************************)
(* The task manager API of backend/server.js: the middleware chain         *)
(* (express.json, the rate limiter), the five route handlers and the       *)
(* task collection they work on.  Every await of a handler is a step of    *)
(* its own, so requests interleave at the store calls as they do in node.  *)
(* The browser client of frontend/script.js is a caller of the API: its     *)
(* tasks array, its page and the responses on their way to it.             *)
(***************************************************************************)
EXTENDS Integers, Sequences, FiniteSets, TLC

\* ----------------------------------------------------------------- bounds
MaxIds == 3         \* documents ever constructed (ObjectIds handed out)
MaxReqs == 2        \* requests issued in one behaviour
MaxInFlight == 2    \* requests whose handler is suspended at an await
MaxClock == 1       \* distinct Date.now() values

\* ------------------------------------------------------ program constants
max == 100          \* rateLimit({ max: 100 })

NoTask == [id |-> 0, text |-> << >>, completed |-> FALSE, createdAt |-> 0]

\* The two revisions of server.js kept in src/backend/server.js: lines 16-155
\* mount the limiter after the routes, lines 170-373 before them.
Builds == {"routesThenLimiter", "limiterThenRoutes"}

\* Request bodies: a body express.json cannot parse, one without a text
\* field, and one with a text (empty, one blank, one letter).
Texts == {<< >>, <<" ">>, <<"a">>}
NoBody == [ok |-> TRUE, hasText |-> FALSE, text |-> << >>]
Malformed == [ok |-> FALSE, hasText |-> FALSE, text |-> << >>]
Bodies == {Malformed, NoBody} \cup {[ok |-> TRUE, hasText |-> TRUE, text |-> t] : t \in Texts}

\* Requests already admitted in the current window when the behaviour starts
\* (earlier GET /api/tasks requests leave nothing else behind).
PriorHits == {0, max - 1}

\* The collection outlives the server process: what it holds when the server
\* starts.  Empty, or two tasks of an earlier run created in the same
\* millisecond.
InitialStores ==
    {{},
     {[id |-> 1, text |-> <<"a">>, completed |-> FALSE, createdAt |-> 0],
      [id |-> 2, text |-> <<"a">>, completed |-> TRUE, createdAt |-> 0]}}

VARIABLES
    build,      \* which revision of server.js runs
    tasks,      \* the tasks collection: a set of documents
    nextId,     \* the next ObjectId
    clock,      \* the latest Date.now() a handler has read
    hits,       \* the limiter's counter of the caller in the current window
    admitted,   \* /api/ requests of the window that reached a route handler
    reqs,       \* requests suspended at an await
    issued,     \* requests issued so far
    sent,       \* the response sent by the step just taken (NoResp: none)
    ackedDel,   \* ids whose DELETE was answered 200
    odd,        \* ids with an odd number of toggles answered 200
    overlap,    \* ids of which two toggles overlapped (read, read, save)
    rt,         \* one observed pair of toggles of a task, one after the other
    uiTasks,    \* script.js: let tasks, the array the page is rendered from
    view,       \* what #taskList shows: "blank", "loading", "tasks", "error"
    wire,       \* responses on their way to the browser
    failed      \* a fetch of the browser was answered with a status that is not ok

vars == <<build, tasks, nextId, clock, hits, admitted, reqs, issued, sent,
          ackedDel, odd, overlap, rt, uiTasks, view, wire, failed>>

\* The browser's part of the state.
page == <<uiTasks, view, wire, failed>>

hist == <<ackedDel, odd, overlap, rt>>

\* ---------------------------------------------------------------- helpers

Ids == 1..MaxIds

Range(f) == {f[i] : i \in DOMAIN f}

Find(id) == {t \in tasks : t.id = id}

checkPresent(body) == body.hasText

\* taskSchema.text: { type: String, required: true }: mongoose's required
\* validator of a String path accepts any string of length > 0.
checkRequired(body) == body.hasText /\ Len(body.text) > 0

NewTaskDone(id, body, now) ==
    [id |-> id, text |-> body.text, completed |-> TRUE, createdAt |-> now]

\* new Task({ text }): the schema's defaults fill completed and createdAt,
\* mongoose assigns _id.
NewTask(id, body, now) ==
    [id |-> id, text |-> body.text, completed |-> FALSE, createdAt |-> now]

FlipDone(t) == [t EXCEPT !.completed = TRUE]

\* task.completed = !task.completed
Flip(t) == [t EXCEPT !.completed = ~t.completed]

SavedNothing(t, doc) == t

\* task.save() of a loaded document writes the modified path: the stored
\* document t after updateOne({_id}, {$set: {completed: doc.completed}}).
Saved(t, doc) == [t EXCEPT !.completed = doc.completed]

RemovedNone(S, id) == S

\* Task.findByIdAndDelete(id): the collection without the document.
Removed(S, id) == {t \in S : t.id # id}

IsBlank(text) == \A i \in 1..Len(text) : text[i] = " "

\* Task.find().sort({ createdAt: -1 }): the documents in non-increasing order
\* of createdAt; the store fixes no order among equal keys.
Perms(S) == {f \in [1..Cardinality(S) -> S] : \A i, j \in 1..Cardinality(S) : i # j => f[i] # f[j]}

SortedListsAscending(S) ==
    {f \in Perms(S) : \A i \in 1..(Cardinality(S) - 1) : f[i].createdAt <= f[i + 1].createdAt}

SortedLists(S) ==
    {f \in Perms(S) : \A i \in 1..(Cardinality(S) - 1) : f[i].createdAt >= f[i + 1].createdAt}

NoResp == [n |-> 0, kind |-> "none", id |-> 0, body |-> NoBody, seen |-> {},
           status |-> 0, json |-> FALSE, cause |-> "none", error |-> "",
           task |-> NoTask, list |-> << >>]

Resp(r, status, json, cause, error, task, list) ==
    [n |-> r.n, kind |-> r.kind, id |-> r.id, body |-> r.body, seen |-> r.seen,
     status |-> status, json |-> json, cause |-> cause, error |-> error,
     task |-> task, list |-> list]

\* The request's handle while it is in flight: the lowest one free.
FreeSlot ==
    CHOOSE i \in 1..(Cardinality(reqs) + 1) :
        /\ \A q \in reqs : q.n # i
        /\ \A j \in 1..(i - 1) : \E q \in reqs : q.n = j

Req(kind, id, body, pc, doc) ==
    [n |-> FreeSlot, kind |-> kind, id |-> id, body |-> body,
     seen |-> IF kind \in {"list", "delete"} THEN ackedDel ELSE {},
     pc |-> pc, doc |-> doc]

CanIssue == issued < MaxReqs /\ Cardinality(reqs) < MaxInFlight

\* app.use('/api/', limiter): whether the limiter sees a request to /api/.
limiterMounted == build = "limiterThenRoutes"

\* express-rate-limit: the hit is counted, then compared with max.
overLimit(h) == h > max

\* express.json, then the limiter, in front of an /api/ route.
Pipeline(body) ==
    IF ~body.ok THEN "parse"
    ELSE IF limiterMounted /\ overLimit(hits + 1) THEN "rate"
    ELSE "pass"

\* The part of the chain every /api/ request shares; r is the request.
Api(r, out) ==
    /\ CanIssue
    /\ issued' = issued + 1
    /\ hits' = IF out # "parse" /\ limiterMounted THEN hits + 1 ELSE hits
    /\ CASE out = "parse" ->
              \* express.json passes the SyntaxError to express's default
              \* error handler: status 400 and an HTML page.
              /\ sent' = Resp(r, 400, FALSE, "parse", "", NoTask, << >>)
              /\ UNCHANGED <<reqs, admitted>>
         [] out = "rate" ->
              /\ sent' = Resp(r, 429, TRUE, "rate", "Too many requests from this IP, please try again later.", NoTask, << >>)
              /\ UNCHANGED <<reqs, admitted>>
         [] out = "pass" ->
              /\ reqs' = reqs \cup {r}
              /\ admitted' = admitted + 1
              /\ sent' = NoResp

NotFoundAsBadRequest(r) == Resp(r, 400, TRUE, "notfound", "Task not found", NoTask, << >>)

\* res.status(404).json({ error: 'Task not found' })
NotFound(r) == Resp(r, 404, TRUE, "notfound", "Task not found", NoTask, << >>)

\* The catch blocks: res.status(code).json({ error: error.message })
Caught(r, code, cause, message) == Resp(r, code, TRUE, cause, message, NoTask, << >>)

Finish(r, resp) ==
    /\ reqs' = reqs \ {r}
    /\ sent' = resp

\* ------------------------------------------------- the observed toggle pair
\* phase 0: nothing observed; 1: the first toggle is in flight; 2: it was
\* answered 200; 3: the second toggle is in flight; 4: it was answered;
\* 9: the observation ended (the first toggle failed, or another toggle of the
\* id came between).
RtIdle == [phase |-> 0, id |-> 0, n |-> 0, orig |-> NoTask, e1 |-> NoTask,
           e2 |-> NoTask, status |-> 0, cause |-> "none", after |-> NoTask]

RtVoid == [RtIdle EXCEPT !.phase = 9]

RtStart(r, watch) ==
    IF rt.phase = 0
    THEN IF watch /\ Find(r.id) # {} /\ ~\E q \in reqs : q.kind = "toggle" /\ q.id = r.id
         THEN [RtIdle EXCEPT !.phase = 1, !.id = r.id, !.n = r.n,
                             !.orig = CHOOSE t \in Find(r.id) : TRUE]
         ELSE rt
    ELSE IF rt.id # r.id THEN rt
    ELSE IF rt.phase = 2 THEN [rt EXCEPT !.phase = 3, !.n = r.n]
    ELSE IF rt.phase \in {1, 3} THEN RtVoid
    ELSE rt

\* The answer resp to toggle r; S is the collection after the step.
RtAnswer(r, resp, S) ==
    IF rt.id # r.id \/ rt.n # r.n THEN rt
    ELSE IF rt.phase = 1
    THEN IF resp.status = 200 THEN [rt EXCEPT !.phase = 2, !.e1 = resp.task] ELSE RtVoid
    ELSE IF rt.phase = 3
    THEN [rt EXCEPT !.phase = 4, !.e2 = resp.task, !.status = resp.status,
                    !.cause = resp.cause,
                    !.after = IF \E t \in S : t.id = r.id
                              THEN CHOOSE t \in S : t.id = r.id ELSE NoTask]
    ELSE rt

\* ---------------------------------------------------------------- actions
\* A store call either answers (up) or throws (the store is unreachable, the
\* command times out): the handler's catch block then answers.

\* GET /api/tasks
ListStart ==
    /\ Api(Req("list", 0, NoBody, "find", NoTask), Pipeline(NoBody))
    /\ UNCHANGED <<build, tasks, nextId, clock, hist>>

ListFind(r, up) ==
    /\ r.kind = "list" /\ r.pc = "find"
    /\ IF up
       THEN \E l \in SortedLists(tasks) : Finish(r, Resp(r, 200, TRUE, "ok", "", NoTask, l))
       ELSE Finish(r, Caught(r, 500, "store", "store error"))
    /\ UNCHANGED <<build, tasks, nextId, clock, hits, admitted, issued, hist>>

\* POST /api/tasks: new Task({ text }) runs before the first await and sets
\* _id and createdAt (Date.now(), which does not run backwards: now).
CreateStart(body, now) ==
    LET out == Pipeline(body)
        doc == NewTask(nextId, body, now)
    IN  /\ out = "pass" => nextId <= MaxIds
        /\ now >= clock
        /\ Api(Req("create", nextId, body, "save", doc), out)
        /\ nextId' = IF out = "pass" THEN nextId + 1 ELSE nextId
        /\ clock' = IF out = "pass" THEN now ELSE clock
        /\ UNCHANGED <<build, tasks, hist>>

CreateSave(r, up) ==
    /\ r.kind = "create" /\ r.pc = "save"
    /\ IF ~checkRequired(r.body)
       THEN /\ Finish(r, Caught(r, 400, "validation", "Task validation failed"))
            /\ UNCHANGED tasks
       ELSE IF ~up
       THEN /\ Finish(r, Caught(r, 400, "store", "store error"))
            /\ UNCHANGED tasks
       ELSE /\ tasks' = tasks \cup {r.doc}
            /\ Finish(r, Resp(r, 201, TRUE, "ok", "", r.doc, << >>))
    /\ UNCHANGED <<build, nextId, clock, hits, admitted, issued, hist>>

\* PUT /api/tasks/:id/toggle; watch: the observation of a pair starts here.
ToggleStart(id, watch) ==
    LET out == Pipeline(NoBody)
        r == Req("toggle", id, NoBody, "findById", NoTask)
    IN  /\ Api(r, out)
        /\ rt' = IF out = "pass" THEN RtStart(r, watch) ELSE rt
        /\ UNCHANGED <<build, tasks, nextId, clock, ackedDel, odd, overlap>>

ToggleFind(r, up) ==
    /\ r.kind = "toggle" /\ r.pc = "findById"
    /\ IF ~up
       THEN /\ Finish(r, Caught(r, 400, "store", "store error"))
            /\ rt' = RtAnswer(r, Caught(r, 400, "store", "store error"), tasks)
            /\ UNCHANGED overlap
       ELSE IF Find(r.id) = {}
       THEN /\ Finish(r, NotFound(r))
            /\ rt' = RtAnswer(r, NotFound(r), tasks)
            /\ UNCHANGED overlap
       ELSE \E t \in Find(r.id) :
            /\ reqs' = (reqs \ {r}) \cup {[r EXCEPT !.pc = "save", !.doc = Flip(t)]}
            /\ overlap' = IF \E q \in reqs : q.kind = "toggle" /\ q.id = r.id /\ q.pc = "save"
                          THEN overlap \cup {r.id} ELSE overlap
            /\ sent' = NoResp
            /\ UNCHANGED rt
    /\ UNCHANGED <<build, tasks, nextId, clock, hits, admitted, issued, ackedDel, odd>>

ToggleSaveUpsert(r, up) ==
    /\ r.kind = "toggle" /\ r.pc = "save"
    /\ IF ~up
       THEN /\ Finish(r, Caught(r, 400, "store", "store error"))
            /\ rt' = RtAnswer(r, Caught(r, 400, "store", "store error"), tasks)
            /\ UNCHANGED <<tasks, odd>>
       ELSE /\ tasks' = {t \in tasks : t.id # r.id} \cup {r.doc}
            /\ odd' = IF r.id \in odd THEN odd \ {r.id} ELSE odd \cup {r.id}
            /\ Finish(r, Resp(r, 200, TRUE, "ok", "", r.doc, << >>))
            /\ rt' = RtAnswer(r, Resp(r, 200, TRUE, "ok", "", r.doc, << >>),
                              {t \in tasks : t.id # r.id} \cup {r.doc})
    /\ UNCHANGED <<build, nextId, clock, hits, admitted, issued, ackedDel, overlap>>

\* task.save() of a loaded document: updateOne({_id}, {$set: {completed}});
\* mongoose throws DocumentNotFoundError when no document matched.
ToggleSave(r, up) ==
    /\ r.kind = "toggle" /\ r.pc = "save"
    /\ IF ~up
       THEN /\ Finish(r, Caught(r, 400, "store", "store error"))
            /\ rt' = RtAnswer(r, Caught(r, 400, "store", "store error"), tasks)
            /\ UNCHANGED <<tasks, odd>>
       ELSE IF Find(r.id) = {}
       THEN /\ Finish(r, Caught(r, 400, "gone", "No document found for query"))
            /\ rt' = RtAnswer(r, Caught(r, 400, "gone", "No document found for query"), tasks)
            /\ UNCHANGED <<tasks, odd>>
       ELSE \E t \in Find(r.id) :
            /\ tasks' = (tasks \ {t}) \cup {Saved(t, r.doc)}
            /\ odd' = IF r.id \in odd THEN odd \ {r.id} ELSE odd \cup {r.id}
            /\ Finish(r, Resp(r, 200, TRUE, "ok", "", r.doc, << >>))
            /\ rt' = RtAnswer(r, Resp(r, 200, TRUE, "ok", "", r.doc, << >>),
                              (tasks \ {t}) \cup {Saved(t, r.doc)})
    /\ UNCHANGED <<build, nextId, clock, hits, admitted, issued, ackedDel, overlap>>

\* DELETE /api/tasks/:id
DeleteStart(id) ==
    /\ Api(Req("delete", id, NoBody, "findByIdAndDelete", NoTask), Pipeline(NoBody))
    /\ UNCHANGED <<build, tasks, nextId, clock, hist>>

DeleteFind(r, up) ==
    /\ r.kind = "delete" /\ r.pc = "findByIdAndDelete"
    /\ IF ~up
       THEN /\ Finish(r, Caught(r, 400, "store", "store error"))
            /\ UNCHANGED <<tasks, ackedDel>>
       ELSE IF Find(r.id) = {}
       THEN /\ Finish(r, NotFound(r))
            /\ UNCHANGED <<tasks, ackedDel>>
       ELSE /\ tasks' = Removed(tasks, r.id)
            /\ ackedDel' = ackedDel \cup {r.id}
            /\ Finish(r, Resp(r, 200, TRUE, "ok", "", NoTask, << >>))
    /\ UNCHANGED <<build, nextId, clock, hits, admitted, issued, odd, overlap, rt>>

\* GET /health: outside /api/, so the limiter never sees it.
HealthStart ==
    /\ CanIssue
    /\ issued' = issued + 1
    /\ reqs' = reqs \cup {Req("health", 0, NoBody, "ping", NoTask)}
    /\ sent' = NoResp
    /\ UNCHANGED <<build, tasks, nextId, clock, hits, admitted, hist>>

HealthPingAlwaysHealthy(r, up) ==
    /\ r.kind = "health" /\ r.pc = "ping"
    /\ Finish(r, Resp(r, 200, TRUE, "ok", "", NoTask, << >>))
    /\ UNCHANGED <<build, tasks, nextId, clock, hits, admitted, issued, hist>>

\* await ping(): 200 {status: 'healthy', database: 'connected'} (cause "ok")
\* when it resolves, 503 {status: 'unhealthy', error} when it throws.
HealthPing(r, up) ==
    /\ r.kind = "health" /\ r.pc = "ping"
    /\ IF up
       THEN Finish(r, Resp(r, 200, TRUE, "ok", "", NoTask, << >>))
       ELSE Finish(r, Caught(r, 503, "store", "store error"))
    /\ UNCHANGED <<build, tasks, nextId, clock, hits, admitted, issued, hist>>

\* GET /
Root ==
    /\ CanIssue
    /\ issued' = issued + 1
    /\ sent' = Resp(Req("root", 0, NoBody, "done", NoTask), 200, TRUE, "ok", "", NoTask, << >>)
    /\ UNCHANGED <<build, tasks, nextId, clock, hits, admitted, reqs, hist>>

\* ------------------------------------------------------------ environment

\* windowMs elapsed: the limiter forgets the caller's hits.  Below the limit
\* the count changes no answer, so the window is let elapse once it is reached.
WindowReset ==
    /\ hits >= max \/ admitted >= max
    /\ hits' = 0
    /\ admitted' = 0
    /\ sent' = NoResp
    /\ UNCHANGED <<build, tasks, nextId, clock, reqs, issued, hist>>

\* ---------------------------------------------------------- specification

Start(b) ==
    /\ build = b
    /\ tasks \in InitialStores
    /\ nextId = Cardinality(tasks) + 1
    /\ clock = 0
    /\ \E p \in PriorHits :
          /\ admitted = p
          /\ hits = IF limiterMounted THEN p ELSE 0
    /\ reqs = {}
    /\ issued = 0
    /\ sent = NoResp
    /\ ackedDel = {}
    /\ odd = {t.id : t \in {u \in tasks : u.completed}}
    /\ overlap = {}
    /\ rt = RtIdle

\* No page is open: the API's callers are arbitrary requests.
NoPage ==
    /\ uiTasks = << >>
    /\ view = "blank"
    /\ wire = {}
    /\ failed = FALSE

\* The revision at the end of server.js (lines 170-373).
Init == Start("limiterThenRoutes") /\ NoPage

\* The earlier revision (lines 16-155).
InitOld == Start("routesThenLimiter") /\ NoPage

Next ==
    \/ ListStart /\ UNCHANGED page
    \/ \E r \in reqs, up \in BOOLEAN : ListFind(r, up) /\ UNCHANGED page
    \/ \E b \in Bodies, now \in 0..MaxClock : CreateStart(b, now) /\ UNCHANGED page
    \/ \E r \in reqs, up \in BOOLEAN : CreateSave(r, up) /\ UNCHANGED page
    \/ \E id \in Ids, watch \in BOOLEAN : ToggleStart(id, watch) /\ UNCHANGED page
    \/ \E r \in reqs, up \in BOOLEAN : ToggleFind(r, up) /\ UNCHANGED page
    \/ \E r \in reqs, up \in BOOLEAN : ToggleSave(r, up) /\ UNCHANGED page
    \/ \E id \in Ids : DeleteStart(id) /\ UNCHANGED page
    \/ \E r \in reqs, up \in BOOLEAN : DeleteFind(r, up) /\ UNCHANGED page
    \/ HealthStart /\ UNCHANGED page
    \/ \E r \in reqs, up \in BOOLEAN : HealthPing(r, up) /\ UNCHANGED page
    \/ Root /\ UNCHANGED page
    \/ WindowReset /\ UNCHANGED page

Spec == Init /\ [][Next]_vars

SpecOld == InitOld /\ [][Next]_vars

\* ------------------------------------------------------ the browser client
\* frontend/script.js.  fetch() hands the request to the server at once; the
\* response travels on its own and responses overtake one another.

RECURSIVE TrimLeft(_)
TrimLeft(s) == IF s # << >> /\ Head(s) = " " THEN TrimLeft(Tail(s)) ELSE s

RECURSIVE TrimRight(_)
TrimRight(s) ==
    IF s # << >> /\ s[Len(s)] = " " THEN TrimRight(SubSeq(s, 1, Len(s) - 1)) ELSE s

\* String.prototype.trim
trim(s) == TrimRight(TrimLeft(s))

\* response.ok
ok(resp) == resp.status >= 200 /\ resp.status <= 299

FreeTag(W) == CHOOSE i \in 1..(Cardinality(W) + 1) : \A m \in W : m.tag # i

\* The server's response, if the step sent one, sets out for the browser.
Put(W, resp) == IF resp = NoResp THEN W ELSE W \cup {[tag |-> FreeTag(W), resp |-> resp]}

Network ==
    /\ wire' = Put(wire, sent')
    /\ UNCHANGED <<uiTasks, view, failed>>

\* addTask(): the trimmed input is posted unless it is empty.
addTask(input) ==
    LET text == trim(input)
    IN  /\ view # "blank"
        /\ text # << >>
        /\ \E now \in 0..MaxClock :
              CreateStart([ok |-> TRUE, hasText |-> TRUE, text |-> text], now)
        /\ Network

\* toggleTask(id), deleteTask(id): the buttons renderTasks() drew for uiTasks.
toggleTask(id) ==
    /\ view = "tasks"
    /\ id \in {t.id : t \in Range(uiTasks)}
    /\ ToggleStart(id, FALSE)
    /\ Network

deleteTask(id) ==
    /\ view = "tasks"
    /\ id \in {t.id : t \in Range(uiTasks)}
    /\ DeleteStart(id)
    /\ Network

\* The await of a fetch in addTask, toggleTask or deleteTask resumes: a
\* response that is ok calls loadTasks(), which shows the loading line and
\* fetches GET /api/tasks; any other is reported and nothing is reloaded.
MutationAnswered(m) ==
    /\ m \in wire
    /\ m.resp.kind \in {"create", "toggle", "delete"}
    /\ IF ok(m.resp)
       THEN /\ ListStart
            /\ wire' = Put(wire \ {m}, sent')
            /\ view' = "loading"
            /\ UNCHANGED <<uiTasks, failed>>
       ELSE /\ wire' = wire \ {m}
            /\ failed' = TRUE
            /\ sent' = NoResp
            /\ UNCHANGED <<build, tasks, nextId, clock, hits, admitted, reqs, issued,
                           hist, uiTasks, view>>

\* The await of the fetch in loadTasks resumes: tasks = await response.json()
\* and renderTasks(), or the error line.
loadTasksAnswered(m) ==
    /\ m \in wire
    /\ m.resp.kind = "list"
    /\ wire' = wire \ {m}
    /\ IF ok(m.resp)
       THEN /\ uiTasks' = m.resp.list
            /\ view' = "tasks"
            /\ UNCHANGED failed
       ELSE /\ view' = "error"
            /\ failed' = TRUE
            /\ UNCHANGED uiTasks
    /\ sent' = NoResp
    /\ UNCHANGED <<build, tasks, nextId, clock, hits, admitted, reqs, issued, hist>>

\* DOMContentLoaded has run loadTasks(): its GET /api/tasks was admitted by
\* the limiter and waits for Task.find().
InitClient ==
    /\ build = "limiterThenRoutes"
    /\ tasks \in InitialStores
    /\ nextId = Cardinality(tasks) + 1
    /\ clock = 0
    /\ \E p \in PriorHits :
          /\ admitted = p + 1
          /\ hits = p + 1
    /\ reqs = {[n |-> 1, kind |-> "list", id |-> 0, body |-> NoBody, seen |-> {},
                pc |-> "find", doc |-> NoTask]}
    /\ issued = 0
    /\ sent = NoResp
    /\ ackedDel = {}
    /\ odd = {t.id : t \in {u \in tasks : u.completed}}
    /\ overlap = {}
    /\ rt = RtIdle
    /\ uiTasks = << >>
    /\ view = "loading"
    /\ wire = {}
    /\ failed = FALSE

\* The page is the API's only caller.
NextClient ==
    \/ \E input \in Texts : addTask(input)
    \/ \E id \in Ids : toggleTask(id)
    \/ \E id \in Ids : deleteTask(id)
    \/ \E m \in wire : MutationAnswered(m)
    \/ \E m \in wire : loadTasksAnswered(m)
    \/ \E r \in reqs, up \in BOOLEAN : ListFind(r, up) /\ Network
    \/ \E r \in reqs, up \in BOOLEAN : CreateSave(r, up) /\ Network
    \/ \E r \in reqs, up \in BOOLEAN : ToggleFind(r, up) /\ Network
    \/ \E r \in reqs, up \in BOOLEAN : ToggleSave(r, up) /\ Network
    \/ \E r \in reqs, up \in BOOLEAN : DeleteFind(r, up) /\ Network
    \/ WindowReset /\ UNCHANGED page

SpecClient == InitClient /\ [][NextClient]_vars

\* ------------------------------------------------------------------ claims

\* Request r is answered by this step.
Answered(r) == r \in reqs /\ r \notin reqs' /\ sent'.n = r.n /\ sent'.kind = r.kind

\* Ids a persisted task holds or held (DELETE is the only removal).
UsedIds == {t.id : t \in tasks} \cup ackedDel

NonEmpty(body) == body.ok /\ body.hasText /\ Len(body.text) > 0

\* C1: a POST /api/tasks with a non-empty text that the limiter admits and
\* whose store call succeeds is answered 201; a 201 carries the request's
\* text, completed = false and an id no persisted task has or had; the
\* collection gains exactly that task, so every listing after it has one
\* entry more than any listing before it, the old entries unchanged.
C1_CreateAddsOneTask ==
    [][\A r \in reqs : (Answered(r) /\ r.kind = "create") =>
          /\ (NonEmpty(r.body) /\ sent'.cause # "store") => sent'.status = 201
          /\ sent'.status = 201 =>
                /\ NonEmpty(r.body)
                /\ sent'.task.text = r.body.text
                /\ sent'.task.completed = FALSE
                /\ sent'.task.id \notin UsedIds
                /\ tasks' = tasks \cup {sent'.task}
                /\ \A l1 \in SortedLists(tasks), l2 \in SortedLists(tasks') :
                      /\ Len(l2) = Len(l1) + 1
                      /\ Range(l2) = Range(l1) \cup {sent'.task}]_vars

C1_Witness ==
    /\ sent.kind = "create" /\ sent.status = 201
    /\ sent.task.text = <<"a">>
    /\ sent.task \in tasks
    /\ Cardinality(tasks) = 3

\* C3: no persisted task has an empty or whitespace-only text, and a POST
\* /api/tasks with such a text is refused (400, or 429 by the limiter).
C3_NoBlankText ==
    /\ \A t \in tasks : ~IsBlank(t.text)
    /\ (sent.kind = "create" /\ sent.body.ok /\ sent.body.hasText /\ IsBlank(sent.body.text))
          => sent.status \in {400, 429}

\* C4: a POST /api/tasks without a text field or with the empty text, once
\* the limiter admitted it, is answered 400 with an error message, and no
\* step of the request changes the collection.
C4_EmptyTextRejected ==
    [][\A r \in reqs \cup reqs' :
          (r.kind = "create" /\ ~(r.body.hasText /\ Len(r.body.text) > 0)
                             /\ (r \notin reqs \/ r \notin reqs')) =>
             /\ tasks' = tasks
             /\ r \in reqs =>
                   /\ sent'.n = r.n /\ sent'.kind = "create"
                   /\ sent'.status = 400
                   /\ sent'.json /\ sent'.error # ""]_vars

C4_Witness ==
    /\ sent.kind = "create" /\ sent.status = 400 /\ sent.cause = "validation"
    /\ sent.body.hasText /\ sent.body.text = << >>
    /\ tasks # {}

\* C2: in one window at most max requests to /api/ reach a route handler; a
\* 429 carries the JSON retry hint; /health and / are never answered 429.
C2_AtMostMaxAdmitted ==
    /\ admitted <= max
    /\ sent.status = 429 => (sent.json /\ sent.cause = "rate" /\ sent.error # "")
    /\ sent.kind \in {"health", "root"} => sent.status # 429

\* C5 as claimed: completed changes only by a toggle of that id answered 200,
\* and after n toggles answered 200 it is true exactly when n is odd, also
\* when toggles of the id overlap.
ChangedOnlyByToggle ==
    \A t \in tasks, u \in tasks' :
        (t.id = u.id /\ t.completed # u.completed) =>
            (sent'.kind = "toggle" /\ sent'.id = t.id /\ sent'.status = 200)

C5_ToggleParity ==
    [][/\ ChangedOnlyByToggle
       /\ \A t \in tasks' : t.completed = (t.id \in odd')]_vars

\* C5 as amended: completed changes only by a toggle of that id answered 200,
\* and for a task none of whose toggles overlapped (none read the task
\* between another's read and save) completed is true exactly when the number
\* of toggles answered 200 is odd.
C5_ToggleParityApart ==
    [][/\ ChangedOnlyByToggle
       /\ \A t \in tasks' : t.id \notin overlap' => t.completed = (t.id \in odd')]_vars

C5_Witness ==
    /\ sent.kind = "toggle" /\ sent.status = 200 /\ sent.id = 1
    /\ issued = 2
    /\ 1 \notin overlap /\ 1 \notin odd
    /\ \E t \in tasks : t.id = 1 /\ ~t.completed

\* C6: of two toggles of a task issued one after the other, no other toggle
\* of the id between them, the first echoes the task with completed inverted;
\* the second is answered 200 unless the store fails or the task was deleted,
\* and then echoes the task as it was before the first, which is also what the
\* collection then holds (id, text, completed, createdAt).
C6_ToggleTwiceRestores ==
    /\ rt.phase \in {2, 3, 4} => rt.e1 = [rt.orig EXCEPT !.completed = ~rt.orig.completed]
    /\ rt.phase = 4 =>
          /\ rt.status = 200 \/ rt.cause \in {"store", "notfound", "gone"}
          /\ rt.status = 200 => (rt.e2 = rt.orig /\ rt.after = rt.orig)

C6_Witness == rt.phase = 4 /\ rt.status = 200 /\ rt.orig.completed /\ rt.after \in tasks

\* C7: once a DELETE of an id was answered 200, no GET /api/tasks issued
\* later lists the id, and a DELETE of the id issued later that reaches the
\* store is answered 404 "Task not found"; a DELETE answered 200 removes the
\* task of that id and nothing else.
C7_DeleteIsFinal ==
    [][/\ (sent'.kind = "list" /\ sent'.status = 200) =>
             \A i \in DOMAIN sent'.list : sent'.list[i].id \notin sent'.seen
       /\ (sent'.kind = "delete" /\ sent'.id \in sent'.seen /\ sent'.cause \notin {"store", "rate"}) =>
             (sent'.status = 404 /\ sent'.error = "Task not found")
       /\ \A r \in reqs : (Answered(r) /\ r.kind = "delete" /\ sent'.status = 200) =>
             /\ \E t \in tasks : t.id = r.id
             /\ tasks' = {t \in tasks : t.id # r.id}]_vars

C7_Witness ==
    /\ sent.kind = "delete" /\ sent.status = 404
    /\ sent.id \in sent.seen
    /\ tasks # {}

\* C8: a GET /api/tasks answered 200 lists every persisted task once, in
\* non-increasing order of createdAt.
ListSorted ==
    (sent.kind = "list" /\ sent.status = 200) =>
        /\ Range(sent.list) = tasks
        /\ Len(sent.list) = Cardinality(tasks)
        /\ \A i, j \in DOMAIN sent.list : i < j => sent.list[i].createdAt >= sent.list[j].createdAt

Pos(l, t) == CHOOSE i \in DOMAIN l : l[i] = t

\* Listings l1 before and l2 after a toggle or delete of id x order the other
\* tasks alike (ties: also those of equal createdAt).
KeepsOrder(l1, l2, x, ties) ==
    \A a, b \in Range(l1) \cap Range(l2) :
        (a.id # x /\ b.id # x /\ (ties \/ a.createdAt # b.createdAt)) =>
            (Pos(l1, a) < Pos(l1, b) <=> Pos(l2, a) < Pos(l2, b))

OrderKept(ties) ==
    \A r \in reqs : (Answered(r) /\ r.kind \in {"toggle", "delete"} /\ sent'.status = 200) =>
        \A l1 \in SortedLists(tasks), l2 \in SortedLists(tasks') : KeepsOrder(l1, l2, r.id, ties)

\* C8 as claimed: the listing is sorted, and a toggle or delete never changes
\* the relative order of the other tasks.
C8_OrderNeverChanges == [][ListSorted' /\ OrderKept(TRUE)]_vars

\* C8 as amended: the listing is sorted, and a toggle or delete never changes
\* the relative order of other tasks whose createdAt differ.
C8_OrderOfDistinctKept == [][ListSorted' /\ OrderKept(FALSE)]_vars

C8_Witness ==
    /\ sent.kind = "delete" /\ sent.status = 200
    /\ \E a, b \in tasks : a.createdAt < b.createdAt

\* C9: a toggle or delete whose lookup finds no task of the id (the store
\* answering) is answered 404 {error: "Task not found"}; no step of a toggle
\* or delete of an id that names no task changes the collection, and no step
\* of a toggle adds a task.
C9_MissingIdIs404 ==
    [][\A r \in reqs :
          /\ (Answered(r) /\ r.pc \in {"findById", "findByIdAndDelete"}
                          /\ Find(r.id) = {} /\ sent'.cause # "store") =>
                (sent'.status = 404 /\ sent'.json /\ sent'.error = "Task not found")
          /\ (r.kind \in {"toggle", "delete"} /\ r \notin reqs' /\ Find(r.id) = {}) =>
                tasks' = tasks
          /\ (r.kind = "toggle" /\ r \notin reqs') =>
                {t.id : t \in tasks'} \subseteq {t.id : t \in tasks}]_vars

C9_Witness ==
    /\ sent.kind = "toggle" /\ sent.status = 404 /\ sent.error = "Task not found"
    /\ sent.id \in ackedDel
    /\ tasks # {}

\* C10: every failure is answered with a JSON body that has an error field
\* and the status of its class.
C10_ErrorsAreJson ==
    sent.status >= 400 =>
        /\ sent.json /\ sent.error # ""
        /\ sent.cause \in {"parse", "validation"} => sent.status = 400
        /\ sent.cause = "notfound" => sent.status = 404
        /\ sent.cause = "rate" => sent.status = 429
        /\ (sent.cause \in {"store", "gone"} /\ sent.kind = "list") => sent.status = 500
        /\ (sent.cause \in {"store", "gone"} /\ sent.kind \in {"create", "toggle", "delete"}) =>
              sent.status = 400

\* C11: a GET /health request changes no task and no rate-limit count of the
\* caller, neither when it arrives nor when it is answered; its answer is 200
\* with the healthy body exactly when the connectivity probe succeeded, and
\* 503 with a JSON body carrying the error message when the probe failed.
C11_HealthIsReadOnly ==
    [][/\ \A r \in reqs' \ reqs :
              r.kind = "health" => (tasks' = tasks /\ hits' = hits /\ admitted' = admitted)
       /\ \A r \in reqs \ reqs' :
              r.kind = "health" =>
                 /\ tasks' = tasks /\ hits' = hits /\ admitted' = admitted
                 /\ Answered(r)
                 /\ \A up \in BOOLEAN :
                       HealthPing(r, up) =>
                          /\ up => (sent'.status = 200 /\ sent'.json /\ sent'.cause = "ok")
                          /\ ~up => (sent'.status = 503 /\ sent'.json /\ sent'.error # "")]_vars

\* A failed probe is answered while tasks exist and the caller's count stands
\* one short of the limit.
C11_Witness ==
    /\ sent.kind = "health" /\ sent.status = 503 /\ sent.error # ""
    /\ tasks # {}
    /\ hits = max - 1

\* C12: a deleted task is never brought back.  The save of a toggle whose
\* document is gone from the collection (a DELETE of the id completed after
\* the toggle read it) writes nothing and is answered with a JSON error, not
\* 200; no task in the collection has an id whose DELETE was answered 200;
\* and no GET /api/tasks issued after a DELETE's 200 lists that id.
C12_DeletedStaysDeleted ==
    [][/\ \A r \in reqs :
              (r.kind = "toggle" /\ r.pc = "save" /\ r \notin reqs' /\ Find(r.id) = {}) =>
                 /\ tasks' = tasks
                 /\ Answered(r)
                 /\ sent'.status >= 400 /\ sent'.json /\ sent'.error # ""
       /\ \A t \in tasks' : t.id \notin ackedDel'
       /\ (sent'.kind = "toggle" /\ sent'.id \in ackedDel') => sent'.status # 200
       /\ (sent'.kind = "list" /\ sent'.status = 200) =>
              {t.id : t \in Range(sent'.list)} \cap sent'.seen = {}]_vars

\* A toggle read the task, the DELETE of the id was answered 200, then the
\* toggle's save found no document.
C12_Witness ==
    /\ sent.kind = "toggle" /\ sent.cause = "gone" /\ sent.status = 400
    /\ sent.id \in ackedDel
    /\ sent.id \notin {t.id : t \in tasks}

\* Every fetch of the page was answered and handled, each with an ok status.
AllAnswered == reqs = {} /\ wire = {} /\ ~failed

\* C13: in the browser client every add, toggle or delete that was answered
\* ok issues a reload (a GET /api/tasks), and once every request of the page
\* has completed successfully, the page being the only caller, its tasks
\* array is the collection's current list (newest first, ties in either
\* order), in whatever order the responses of concurrent reloads arrived.
C13_CacheEqualsStore ==
    [][/\ \A m \in wire \ wire' :
              (m.resp.kind \in {"create", "toggle", "delete"} /\ ok(m.resp)) =>
                 /\ issued' = issued + 1
                 /\ \/ \E q \in reqs' \ reqs : q.kind = "list"
                    \/ sent'.kind = "list"
       /\ AllAnswered' => uiTasks' \in SortedLists(tasks')]_vars

====
